---- MODULE Spec2Model ----
(***************************************************************************)
(* Model of scripts/services/check-removed-services.js: one invocation of  *)
(* checkRemovedServices(servicesFolderPath, jsonFilePath).                 *)
(*                                                                         *)
(* Strings are sequences of one-character strings, so that toLowerCase,    *)
(* the regular expression, path.parse, Array.prototype.sort and join are   *)
(* computed character by character.  Every await of the code is one step   *)
(* of the model.                                                           *)
(***************************************************************************)
EXTENDS Integers, Sequences, FiniteSets, TLC

\* ------------------------------------------------------------------ bounds
\* Longest legacy array (blocked_services) that is explored.
MaxRecords == 3
\* Largest number of files on disk before the run.
MaxFiles == 1

\* ----------------------------------------------------------------- strings
Dot == "."

\* UTF-16 code units of the characters that occur (default sort order).
Code ==
  [c \in {"-", ".", "A", "B", "E", "a", "b", "c", "e", "h", "l", "m", "o",
          "p", "r", "t", "x", "y"} |->
     CASE c = "-" -> 45 [] c = "." -> 46
       [] c = "A" -> 65 [] c = "B" -> 66 [] c = "E" -> 69
       [] c = "a" -> 97 [] c = "b" -> 98 [] c = "c" -> 99
       [] c = "e" -> 101 [] c = "h" -> 104 [] c = "l" -> 108
       [] c = "m" -> 109 [] c = "o" -> 111 [] c = "p" -> 112
       [] c = "r" -> 114 [] c = "t" -> 116 [] c = "x" -> 120
       [] c = "y" -> 121]

\* String.prototype.toLowerCase on one character.
toLowerCase(c) ==
  CASE c = "A" -> "a" [] c = "B" -> "b" [] c = "E" -> "e" [] OTHER -> c

\* The character class [a-z0-9.] of line 16 (digits are 48..57).
IsKept(c) ==
  \/ (Code[c] >= 97 /\ Code[c] <= 122)
  \/ (Code[c] >= 48 /\ Code[c] <= 57)
  \/ c = Dot

\* normalizeFileName: lower-case, then delete every character outside the class.
normalizeFileName(serviceName) ==
  LET lowerCased == [i \in 1..Len(serviceName) |-> toLowerCase(serviceName[i])]
  IN SelectSeq(lowerCased, IsKept)

YML_FILE_EXTENSION == <<".", "y", "m", "l">>

\* path.parse(file).name for a name without separators: the part before the
\* last dot, unless there is no dot, the only dot is the first character, or
\* the name is "..".
ParseName(file) ==
  LET dots == {i \in 1..Len(file) : file[i] = Dot}
      startDot == IF dots = {} THEN 0
                  ELSE CHOOSE i \in dots : \A j \in dots : j <= i
  IN IF startDot = 0 \/ startDot = 1 \/ file = <<Dot, Dot>>
     THEN file
     ELSE SubSeq(file, 1, startDot - 1)

\* Default comparison of Array.prototype.sort: by code units, a proper prefix first.
RECURSIVE StrLess(_, _)
StrLess(s, t) ==
  IF t = <<>> THEN FALSE
  ELSE IF s = <<>> THEN TRUE
  ELSE IF Code[Head(s)] # Code[Head(t)] THEN Code[Head(s)] < Code[Head(t)]
  ELSE StrLess(Tail(s), Tail(t))

RECURSIVE Insert(_, _)
Insert(x, sorted) ==
  IF sorted = <<>> THEN <<x>>
  ELSE IF StrLess(x, Head(sorted)) THEN <<x>> \o sorted
  ELSE <<Head(sorted)>> \o Insert(x, Tail(sorted))

\* names.sort()
RECURSIVE Sort(_)
Sort(names) ==
  IF names = <<>> THEN <<>> ELSE Insert(Head(names), Sort(Tail(names)))

\* differences.join(', ')
RECURSIVE Join(_)
Join(names) ==
  IF names = <<>> THEN <<>>
  ELSE IF Len(names) = 1 THEN names[1]
  ELSE names[1] \o <<",", " ">> \o Join(Tail(names))

\* Some order in which readdir returns the entries of a directory.
RECURSIVE SetToSeq(_)
SetToSeq(S) ==
  IF S = {} THEN <<>>
  ELSE LET x == CHOOSE y \in S : TRUE IN <<x>> \o SetToSeq(S \ {x})

\* --------------------------------------------------------------- the inputs
\* The ids of the legacy records: "A-B" and "ab" normalize to one key,
\* "Example.com" holds a dot and a capital.
Ids ==
  { <<"A", "-", "B">>,
    <<"a", "b">>,
    <<"E", "x", "a", "m", "p", "l", "e", ".", "c", "o", "m">>,
    <<"o", "t", "h", "e", "r">> }

\* Names of the files that may be on disk before the run: <id>.yml, and two
\* names that lack that extension.
FileNames ==
  {id \o YML_FILE_EXTENSION : id \in Ids}
    \cup { <<"E", "x", "a", "m", "p", "l", "e", ".", "c", "o", "m">>,
           <<"o", "t", "h", "e", "r">> }

\* servicesDir is the module constant of line 7; "other" is any other directory.
servicesDir == "services"
Dirs == {servicesDir, "other"}

\* JavaScript values that JSON.parse(...).blocked_services can be.
ArrayV(items) == [tag |-> "array", items |-> items]
NullV == [tag |-> "null", items |-> <<>>]
UndefinedV == [tag |-> "undefined", items |-> <<>>]
IsArray(v) == v.tag = "array"

\* The record at position i of the legacy array: its id and one more field.
Record(id, i) == [id |-> id, name |-> i]
\* The legacy arrays: ids are unique within a document.
RecordArrays ==
  UNION {{[i \in 1..n |-> Record(ids[i], i)] :
            ids \in {f \in [1..n -> Ids] : \A i \in 1..n : \A j \in 1..n :
                                              f[i] = f[j] => i = j}} :
         n \in 0..MaxRecords}

JsonFiles ==
  {[kind |-> k, blocked_services |-> UndefinedV] : k \in {"unreadable", "invalid", "parsed"}}
  \cup {[kind |-> "parsed", blocked_services |-> ArrayV(a)] : a \in RecordArrays}

\* What find() returns when no element matches.
UndefinedRecord == [id |-> <<>>, name |-> 0]

\* Contents of a file: a YAML dump of a record, what was there before the
\* run, or what a failed write left behind.
OldContent == [text |-> "old", of |-> UndefinedRecord]
TruncatedContent == [text |-> "truncated", of |-> UndefinedRecord]
InitialFiles == {F \in SUBSET (Dirs \X FileNames) : Cardinality(F) <= MaxFiles}
DiskOf(F) ==
  [d \in Dirs |-> [f \in {p[2] : p \in {q \in F : q[1] = d}} |-> OldContent]]

\* ------------------------------------------------------------------- state
VARIABLES
  servicesFolderPath,  \* argument of checkRemovedServices
  jsonFile,            \* the file at jsonFilePath
  disk,                \* directory -> (file name -> content)
  disk0,               \* disk when the run started
  pc,                  \* position of the run
  jsonDataObjects,     \* line 125
  ymlFileNames,        \* line 131
  differences,         \* line 136
  removedObjects,      \* argument of the current writeRemovedServices call
  console,             \* lines printed by console.error / console.log
  writes               \* the fs.writeFile calls made, in order

vars == <<servicesFolderPath, jsonFile, disk, disk0, pc, jsonDataObjects,
          ymlFileNames, differences, removedObjects, console, writes>>

Init ==
  /\ servicesFolderPath \in Dirs
  /\ jsonFile \in JsonFiles
  /\ \E F \in InitialFiles :
       /\ (servicesFolderPath = servicesDir => \A p \in F : p[1] = servicesDir)
       /\ disk = DiskOf(F)
  /\ disk0 = disk
  /\ pc = "start"
  /\ jsonDataObjects = UndefinedV
  /\ ymlFileNames = <<>>
  /\ differences = <<>>
  /\ removedObjects = <<>>
  /\ console = <<>>
  /\ writes = <<>>

\* ------------------------------------------------------------ the functions
ErrorLine(text) == [stream |-> "error", text |-> text, keys |-> <<>>]
LogLine(text, keys) == [stream |-> "log", text |-> text, keys |-> keys]

\* Faulty variant: an empty array instead of null after a failed load.
getJsonObjectsEmptyOnError(file) ==
  IF file.kind = "parsed"
  THEN [value |-> file.blocked_services, logs |-> <<>>]
  ELSE [value |-> ArrayV(<<>>), logs |-> <<ErrorLine("Error while reading JSON file:")>>]

\* getJsonObjects: the array under blocked_services, or null and one error
\* line when readFile or JSON.parse throws.
getJsonObjects(file) ==
  IF file.kind = "parsed"
  THEN [value |-> file.blocked_services, logs |-> <<>>]
  ELSE [value |-> NullV, logs |-> <<ErrorLine("Error while reading JSON file:")>>]

\* getYmlFileNames, after readdir returned ymlFiles.
getYmlFileNames(ymlFiles) ==
  Sort([i \in 1..Len(ymlFiles) |-> normalizeFileName(ParseName(ymlFiles[i]))])

\* Faulty variant: the ids are normalized but not sorted.
getJsonObjectNamesUnsorted(jsonData) ==
  [i \in 1..Len(jsonData) |-> normalizeFileName(jsonData[i].id)]

\* getJsonObjectNames
getJsonObjectNames(jsonData) ==
  Sort([i \in 1..Len(jsonData) |-> normalizeFileName(jsonData[i].id)])

\* Array.prototype.includes
includes(array, x) == \E i \in 1..Len(array) : array[i] = x

\* line 136
filterDifferences(jsonObjectNames, fileNames) ==
  LET absent(name) == ~includes(fileNames, name)
  IN SelectSeq(jsonObjectNames, absent)

\* Faulty variant: >= in place of >.
hasDifferencesOrNone(names) == Len(names) >= 0

\* line 139
hasDifferences(names) == Len(names) > 0

\* Faulty variant: the last matching record instead of the first.
findLastService(jsonServicesData, removedServiceName) ==
  LET hits == {i \in 1..Len(jsonServicesData) :
                 normalizeFileName(jsonServicesData[i].id) = removedServiceName}
  IN IF hits = {} THEN UndefinedRecord
     ELSE jsonServicesData[CHOOSE i \in hits : \A j \in hits : j <= i]

\* Array.prototype.find of lines 107-108: the first record whose normalized
\* id is the name, undefined when there is none.
findService(jsonServicesData, removedServiceName) ==
  LET hits == {i \in 1..Len(jsonServicesData) :
                 normalizeFileName(jsonServicesData[i].id) = removedServiceName}
  IN IF hits = {} THEN UndefinedRecord
     ELSE jsonServicesData[CHOOSE i \in hits : \A j \in hits : i <= j]

\* lines 105-110
removedServicesObjects(removedServicesNames, jsonServicesData) ==
  [i \in 1..Len(removedServicesNames) |->
     findService(jsonServicesData, removedServicesNames[i])]

\* The file line 87 names: servicesDir/<id>.yml (ids hold no path separator).
writeTarget(removedObject) ==
  [dir |-> servicesDir, name |-> removedObject.id \o YML_FILE_EXTENSION]

\* yaml.dump(removedObject, { lineWidth: -1 })
dump(removedObject) == [text |-> "yaml", of |-> removedObject]

\* Faulty variant: the next write is made whether or not this one succeeded.
afterWriteRegardless(ok, objects) ==
  IF Len(objects) > 1 THEN "write" ELSE "log"

\* Where the run goes after the writeFile of the first of objects: the
\* recursive call of line 91 when it succeeded and objects remain, else out
\* of writeRemovedServices (by return or by the exception).
afterWrite(ok, objects) ==
  IF ok /\ Len(objects) > 1 THEN "write" ELSE "log"

PutFile(d, dir, name, content) ==
  [d EXCEPT ![dir] = [f \in DOMAIN d[dir] \cup {name} |->
                        IF f = name THEN content ELSE d[dir][f]]]

\* --------------------------------------------------------------- the steps
\* lines 125-129: load the legacy document; stop unless it is an array.
GetJsonObjects ==
  /\ pc = "start"
  /\ LET r == getJsonObjects(jsonFile) IN
       /\ jsonDataObjects' = r.value
       /\ console' = console \o r.logs
       /\ pc' = IF IsArray(r.value) THEN "list" ELSE "done"
  /\ UNCHANGED <<servicesFolderPath, jsonFile, disk, disk0, ymlFileNames,
                 differences, removedObjects, writes>>

\* line 131: list the directory; a failing readdir rejects the whole call.
GetYmlFileNames ==
  /\ pc = "list"
  /\ \/ /\ ymlFileNames' = getYmlFileNames(SetToSeq(DOMAIN disk[servicesFolderPath]))
        /\ pc' = "names"
     \/ /\ pc' = "rejected"
        /\ UNCHANGED ymlFileNames
  /\ UNCHANGED <<servicesFolderPath, jsonFile, disk, disk0, jsonDataObjects,
                 differences, removedObjects, console, writes>>

\* lines 133-139: the normalized ids that are in no file name.
ComputeDifferences ==
  /\ pc = "names"
  /\ LET jsonObjectNames == getJsonObjectNames(jsonDataObjects.items)
         diff == filterDifferences(jsonObjectNames, ymlFileNames)
     IN /\ differences' = diff
        /\ pc' = IF hasDifferences(diff) THEN "rewrite" ELSE "done"
  /\ UNCHANGED <<servicesFolderPath, jsonFile, disk, disk0, jsonDataObjects,
                 ymlFileNames, removedObjects, console, writes>>

\* lines 105-111: resolve the records and enter writeRemovedServices.
RewriteYMLFile ==
  /\ pc = "rewrite"
  /\ removedObjects' = removedServicesObjects(differences, jsonDataObjects.items)
  /\ pc' = "write"
  /\ UNCHANGED <<servicesFolderPath, jsonFile, disk, disk0, jsonDataObjects,
                 ymlFileNames, differences, console, writes>>

\* lines 81-93 with the catch of lines 112-114: one call of
\* writeRemovedServices.  A failing writeFile leaves the file as it was or
\* leaves it truncated.
WriteRemovedServices ==
  /\ pc = "write"
  /\ IF removedObjects = <<>>
     THEN /\ pc' = "log"
          /\ UNCHANGED <<disk, writes, console, removedObjects>>
     ELSE IF removedObjects[1] = UndefinedRecord
     THEN /\ pc' = "log"
          /\ console' = Append(console, ErrorLine("Error while rewriting file:"))
          /\ UNCHANGED <<disk, writes, removedObjects>>
     ELSE LET t == writeTarget(removedObjects[1])
              c == dump(removedObjects[1])
          IN \E outcome \in {"written", "failed", "truncated"} :
               /\ writes' = Append(writes, [dir |-> t.dir, name |-> t.name,
                                            content |-> c, ok |-> outcome = "written",
                                            existed |-> t.name \in DOMAIN disk[t.dir]])
               /\ disk' = CASE outcome = "written" -> PutFile(disk, t.dir, t.name, c)
                            [] outcome = "truncated" ->
                                 PutFile(disk, t.dir, t.name, TruncatedContent)
                            [] OTHER -> disk
               /\ console' = IF outcome = "written" THEN console
                             ELSE Append(console, ErrorLine("Error while rewriting file:"))
               /\ removedObjects' = Tail(removedObjects)
               /\ pc' = afterWrite(outcome = "written", removedObjects)
  /\ UNCHANGED <<servicesFolderPath, jsonFile, disk0, jsonDataObjects,
                 ymlFileNames, differences>>

\* line 141
LogSummary ==
  /\ pc = "log"
  /\ console' = Append(console,
                  LogLine("These services have been removed: ..., and were rewritten",
                          Join(differences)))
  /\ pc' = "done"
  /\ UNCHANGED <<servicesFolderPath, jsonFile, disk, disk0, jsonDataObjects,
                 ymlFileNames, differences, removedObjects, writes>>

Next ==
  \/ GetJsonObjects
  \/ GetYmlFileNames
  \/ ComputeDifferences
  \/ RewriteYMLFile
  \/ WriteRemovedServices
  \/ LogSummary

Spec == Init /\ [][Next]_vars

\* ------------------------------------------------- vocabulary of the claims
\* The legacy document parsed and held an array.
LoadedArray == jsonFile.kind = "parsed" /\ IsArray(jsonFile.blocked_services)
Legacy == jsonFile.blocked_services.items
LegacyKeys == {normalizeFileName(Legacy[i].id) : i \in 1..Len(Legacy)}
\* Normalized keys of the files of directory dir on disk d.
KeysOfDir(d, dir) == {normalizeFileName(ParseName(f)) : f \in DOMAIN d[dir]}
\* No I/O operation of the run failed.
NoIOFailed ==
  /\ jsonFile.kind = "parsed"
  /\ pc # "rejected"
  /\ \A i \in 1..Len(writes) : writes[i].ok
\* Line 136 has been executed.
DiffComputed == pc \in {"rewrite", "write", "log"} \/ (pc = "done" /\ LoadedArray)
Count(seq, x) == Cardinality({i \in 1..Len(seq) : seq[i] = x})
RewriteError == ErrorLine("Error while rewriting file:")

\* ------------------------------------------------------------------ claims
\* C1: after a run in which no I/O operation failed, the normalized keys of
\* the files in the listed directory (servicesFolderPath) include the
\* normalized id of every legacy record.
C1_KeysRestored ==
  (pc = "done" /\ LoadedArray /\ NoIOFailed)
    => LegacyKeys \subseteq KeysOfDir(disk, servicesFolderPath)

\* C2: after a run in which no I/O operation failed, every legacy record whose
\* normalized id was in no file name before the run has a file holding the
\* dump of that very record, also when several ids normalize to one key.
C2_NoRecordLost ==
  (pc = "done" /\ LoadedArray /\ NoIOFailed)
    => \A i \in 1..Len(Legacy) :
         normalizeFileName(Legacy[i].id) \notin KeysOfDir(disk0, servicesFolderPath)
           => \E d \in Dirs : \E f \in DOMAIN disk[d] : disk[d][f] = dump(Legacy[i])

\* C3: every file written is created in the directory that was listed
\* (servicesFolderPath) and is named <original id>.yml.
C3_WrittenIntoListedDir ==
  \A i \in 1..Len(writes) :
    /\ writes[i].dir = servicesFolderPath
    /\ \E j \in 1..Len(Legacy) : writes[i].name = Legacy[j].id \o YML_FILE_EXTENSION

\* C4: no write targets a file that exists at the moment of the write, and
\* every file present before the run keeps its name and content.
C4_NoExistingFileTouched ==
  /\ \A i \in 1..Len(writes) : ~writes[i].existed
  /\ \A d \in Dirs : \A f \in DOMAIN disk0[d] :
       f \in DOMAIN disk[d] /\ disk[d][f] = disk0[d][f]

\* C5: when every normalized legacy id is among the normalized names of the
\* files that were listed (the empty legacy array included), the difference
\* is empty, the run ends there, nothing is written and nothing is logged.
C5_NothingMissingNoEffect ==
  (DiffComputed /\ LegacyKeys \subseteq KeysOfDir(disk0, servicesFolderPath))
    => /\ differences = <<>>
       /\ pc = "done"
       /\ writes = <<>>
       /\ disk = disk0
       /\ console = <<>>
C5_Witness ==
  /\ pc = "done"
  /\ LoadedArray
  /\ Len(Legacy) = 2
  /\ Legacy[1].id # Legacy[2].id
  /\ LegacyKeys \subseteq KeysOfDir(disk0, servicesFolderPath)

\* C6: when the legacy file cannot be read or parsed, the run makes no write,
\* prints exactly one error line and returns normally (it never rejects and
\* goes nowhere but to its end).
C6_LoadFailureIsQuiet ==
  jsonFile.kind \in {"unreadable", "invalid"}
    => /\ pc \in {"start", "done"}
       /\ writes = <<>>
       /\ disk = disk0
       /\ (pc = "start" => console = <<>>)
       /\ (pc = "done" => /\ Len(console) = 1
                          /\ console[1].stream = "error")
C6_Witness ==
  /\ jsonFile.kind = "invalid"
  /\ pc = "done"
  /\ Len(console) = 1

\* C7: no I/O failure makes checkRemovedServices reject.
C7_NeverRejects == pc # "rejected"

C9_FirstMatchWins ==
  \A i \in 1..Len(writes) :
    \E j \in 1..Len(Legacy) :
      /\ normalizeFileName(Legacy[j].id) = differences[i]
      /\ \A k \in 1..(j - 1) : normalizeFileName(Legacy[k].id) # differences[i]
      /\ writes[i].name = Legacy[j].id \o YML_FILE_EXTENSION
      /\ writes[i].content = dump(Legacy[j])
C9_Witness ==
  /\ pc = "done"
  /\ Len(Legacy) = 2
  /\ Legacy[1].id = <<"A", "-", "B">>
  /\ Legacy[2].id = <<"a", "b">>
  /\ Len(writes) >= 1
  /\ writes[1].ok
  /\ writes[1].name = <<"A", "-", "B">> \o YML_FILE_EXTENSION

\* C10: the missing keys are the normalized legacy ids that are in no
\* normalized file name, once per legacy record, in ascending order.
C10_DifferencesExact ==
  DiffComputed
    => /\ \A i \in 1..Len(differences) : \A j \in 1..Len(differences) :
            i < j => ~StrLess(differences[j], differences[i])
       /\ \A k \in LegacyKeys \cup {differences[i] : i \in 1..Len(differences)} :
            Count(differences, k) =
              IF k \in KeysOfDir(disk0, servicesFolderPath) THEN 0
              ELSE Cardinality({i \in 1..Len(Legacy) : normalizeFileName(Legacy[i].id) = k})
C10_Witness ==
  /\ DiffComputed
  /\ Len(Legacy) = 2
  /\ Legacy[1].id = <<"E", "x", "a", "m", "p", "l", "e", ".", "c", "o", "m">>
  /\ Legacy[2].id = <<"o", "t", "h", "e", "r">>
  /\ DOMAIN disk0[servicesFolderPath] = {<<"o", "t", "h", "e", "r">> \o YML_FILE_EXTENSION}
  /\ differences = << <<"e", "x", "a", "m", "p", "l", "e", ".", "c", "o", "m">> >>

====
